---- MODULE Spec2Model ----
(***************************************************************************)
(* A model of src/machine/machined-core.c: the machine registry            *)
(* (manager_add_machine and the lookups), the garbage-collection pass      *)
(* (manager_gc, manager_enqueue_gc, on_deferred_gc) and the address        *)
(* resolver (machine_get_addresses) with its forked namespace worker.      *)
(*                                                                         *)
(* The Machine object itself (machine_new, machine_link, machine_free,     *)
(* machine_may_gc, machine_get_state, machine_stop, the per-machine        *)
(* enqueue) lives in machine.c, which is not part of the sources at hand;  *)
(* those operators follow the design document.                             *)
(***************************************************************************)
EXTENDS Integers, Sequences, FiniteSets, TLC

\* ------------------------------------------------------------------ bounds

\* How many Machine objects machine_new may allocate in one behaviour.
MaxMachines == 3

\* The machine names collaborators register.
Names == {"a", "b"}

\* The leader process a collaborator supplies for a machine (one process
\* per machine object) and that process's owning unit, an opaque string.
LeaderOf(id) == 100 + id
UnitOfLeader(pid) == <<"unit", pid>>

Ids == 1..MaxMachines

VARIABLES
    mach,                      \* live Machine objects: id -> fields
    next_id,                   \* number of Machine objects allocated so far
    machines,                  \* Manager.machines: the name index (entries)
    machines_by_leader,        \* Manager.machines_by_leader (entries)
    machines_by_unit,          \* Manager.machines_by_unit (entries)
    machine_gc_queue,          \* Manager.machine_gc_queue, head first
    deferred_gc_event_source,  \* "null" | "off" | "oneshot" | "on"
    event_sources,             \* deferred tasks registered with m->event so far
    gc_pc,                     \* position of manager_gc: "idle" | "loop"
    gc_drop,                   \* drop_not_started of the running pass
    gc_deferred,               \* the running pass was entered by on_deferred_gc
    survived,                  \* machines a pass re-referenced and kept, until re-enqueued
    ret,                       \* what the last operation did and returned
    \* machine_get_addresses: the calling process (parent) and its worker
    p_pc,                      \* parent: "idle" | "recv" | "wait" | "done"
    p_machine,                 \* the machine the call is about (0: none)
    fds,                       \* the open descriptors of both processes
    acquired,                  \* what the call has opened, created or forked
    chan,                      \* datagrams in flight from pair[1] to pair[0]
    list,                      \* parent: the addresses appended so far
    w_pc,                      \* worker: "none" | "start" | "write" | "exit" | "dead"
    w_addrs,                   \* worker: what local_addresses returned
    w_i,                       \* worker: index of the next address to write
    w_status,                  \* worker: "none" | "success" | "failure" | "killed"
    w_short,                   \* the first short writev: which record, how many bytes
    p_env,                     \* what the environment answered the parent
    p_n,                       \* parent: what the last recvmsg returned
    enumerated,                \* what local_addresses returned to the caller itself
    reaped                     \* the parent has waited for the worker

vars == <<mach, next_id, machines, machines_by_leader, machines_by_unit,
          machine_gc_queue, deferred_gc_event_source, event_sources,
          gc_pc, gc_drop, gc_deferred,
          survived, ret, p_pc, p_machine, fds, acquired, chan, list, w_pc,
          w_addrs, w_i, w_status, w_short, p_env, p_n, enumerated, reaped>>

registry == <<mach, next_id, machines, machines_by_leader, machines_by_unit>>

gc == <<machine_gc_queue, deferred_gc_event_source, event_sources, gc_pc,
        gc_drop, gc_deferred, survived>>

resolver == <<p_pc, p_machine, fds, acquired, chan, list, w_pc, w_addrs, w_i,
              w_status, w_short, p_env, p_n, enumerated, reaped>>

\* ----------------------------------------------------------- the Machine

\* machine_new(_MACHINE_CLASS_INVALID, name): state Opening, unclassified,
\* no leader, no unit, not queued.
machine_new(id, name) ==
    [id |-> id, name |-> name, class |-> "invalid", state |-> "opening",
     leader |-> 0, unit |-> "", referenced |-> FALSE, in_gc_queue |-> FALSE,
     uid_shift |-> 0, uid_range |-> 0, gid_shift |-> 0, gid_range |-> 0]

machine_get_state(m) == m.state

\* May-collect: no outstanding external reference, and either the caller
\* allows dropping not-yet-started machines or the machine is past Opening.
machine_may_gc(m, drop_not_started) ==
    /\ ~m.referenced
    /\ (drop_not_started \/ m.state # "opening")

\* machine_stop: the machine moves to Closing; the stop may leave a
\* reference behind (rereference).
machine_stop(m, rereference) ==
    [m EXCEPT !.state = "closing", !.referenced = @ \/ rereference]

\* hashmap_get(m->machines, name): the entry under that key, 0 for NULL.
hashmap_get_name(name) ==
    IF \E id \in machines : mach[id].name = name
    THEN CHOOSE id \in machines : mach[id].name = name
    ELSE 0

RemoveFromQueue(q, id) == SelectSeq(q, LAMBDA x : x # id)

\* ------------------------------------------------------------------- Init

NoShort == [at |-> 0, len |-> 0]
NoEnv == [begin |-> "", fault |-> "none"]

\* No machine_get_addresses call is in progress and no worker exists.
ResolverIdle ==
    /\ p_pc = "idle"
    /\ p_machine = 0
    /\ fds = {}
    /\ acquired = {}
    /\ chan = << >>
    /\ list = << >>
    /\ w_pc = "none"
    /\ w_addrs = << >>
    /\ w_i = 0
    /\ w_status = "none"
    /\ w_short = NoShort
    /\ p_env = NoEnv
    /\ p_n = -1
    /\ enumerated = [err |-> "", addresses |-> << >>]
    /\ reaped = FALSE

Init ==
    /\ mach = << >>
    /\ next_id = 0
    /\ machines = {}
    /\ machines_by_leader = {}
    /\ machines_by_unit = {}
    /\ machine_gc_queue = << >>
    /\ deferred_gc_event_source = "null"
    /\ event_sources = 0
    /\ gc_pc = "idle"
    /\ gc_drop = FALSE
    /\ gc_deferred = FALSE
    /\ survived = {}
    /\ ret = [op |-> "init"]
    /\ ResolverIdle

\* ---------------------------------------------------- manager_add_machine

\* The outcomes of the creation path: machine_new fails, machine_link
\* fails, or both succeed.
AddOutcomes == {"ok", "new_failed", "link_failed"}

\* A manager_add_machine that does not look the name up first.
AddMustCreateAlways(name) == TRUE

\* Whether manager_add_machine takes the creation path (hashmap_get
\* returned NULL).
AddMustCreate(name) == hashmap_get_name(name) = 0

\* A failure path that returns without machine_free.
AddLinkFailedLeaks(objects, id) == objects

\* Lines 50-54: the live objects after machine_link failed for the object
\* machine_new just allocated: machine_free(machine) discards it.
AddLinkFailed(objects, id) ==
    [i \in DOMAIN objects \ {id} |-> objects[i]]

manager_add_machine(name, outcome) ==
    /\ gc_pc = "idle"
    /\ IF ~AddMustCreate(name)
       THEN /\ ret' = [op |-> "add", name |-> name, r |-> 0,
                       machine |-> hashmap_get_name(name), created |-> FALSE]
            /\ UNCHANGED registry
       ELSE /\ next_id < MaxMachines
            /\ CASE outcome = "new_failed" ->
                       /\ ret' = [op |-> "add", name |-> name, r |-> -1,
                                  machine |-> 0, created |-> FALSE]
                       /\ UNCHANGED registry
                 [] outcome = "link_failed" ->
                       \* machine_new succeeded, machine_link failed
                       \* before entering the object in any index.
                       LET id == next_id + 1 IN
                       /\ mach' = AddLinkFailed(
                                      (id :> machine_new(id, name)) @@ mach, id)
                       /\ ret' = [op |-> "add", name |-> name, r |-> -2,
                                  machine |-> 0, created |-> FALSE]
                       /\ UNCHANGED <<next_id, machines, machines_by_leader,
                                      machines_by_unit>>
                 [] outcome = "ok" ->
                       LET id == next_id + 1 IN
                       /\ next_id' = id
                       /\ mach' = (id :> machine_new(id, name)) @@ mach
                       /\ machines' = machines \cup {id}
                       /\ ret' = [op |-> "add", name |-> name, r |-> 0,
                                  machine |-> id, created |-> TRUE]
                       /\ UNCHANGED <<machines_by_leader, machines_by_unit>>
    /\ UNCHANGED <<machine_gc_queue, deferred_gc_event_source,
                   event_sources, gc_pc,
                   gc_drop, gc_deferred, survived>>
    /\ UNCHANGED resolver

\* ------------------------------------------------------- the collaborators

\* The class a collaborator gives a machine at setup; the registry and the
\* GC pass never read it.
Classes == {"container"}

\* The collaborator that completes setup classifies the machine and sets its
\* leader and owning unit; machine_link then enters it in the leader and
\* unit indices (one live entry per leader).
MachineSetup(id, class) ==
    /\ gc_pc = "idle"
    /\ id \in machines
    /\ mach[id].class = "invalid"
    /\ \A j \in machines_by_leader : mach[j].leader # LeaderOf(id)
    /\ mach' = [mach EXCEPT ![id].class = class, ![id].leader = LeaderOf(id),
                            ![id].unit = UnitOfLeader(LeaderOf(id))]
    /\ machines_by_leader' = machines_by_leader \cup {id}
    /\ machines_by_unit' = machines_by_unit \cup {id}
    /\ ret' = [op |-> "none"]
    /\ UNCHANGED <<next_id, machines, machine_gc_queue,
                   deferred_gc_event_source,
                   event_sources, gc_pc, gc_drop,
                   gc_deferred, survived>>
    /\ UNCHANGED resolver

\* Setup is complete: Opening -> Running.
MachineStarted(id) ==
    /\ gc_pc = "idle"
    /\ id \in machines
    /\ mach[id].state = "opening"
    /\ mach' = [mach EXCEPT ![id].state = "running"]
    /\ ret' = [op |-> "none"]
    /\ UNCHANGED <<next_id, machines, machines_by_leader, machines_by_unit,
                   machine_gc_queue, deferred_gc_event_source,
                   event_sources, gc_pc, gc_drop, gc_deferred,
                   survived>>
    /\ UNCHANGED resolver

\* An external reference to the machine appears or goes away.
SetReferenced(id, b) ==
    /\ gc_pc = "idle"
    /\ id \in machines
    /\ mach[id].referenced # b
    /\ mach' = [mach EXCEPT ![id].referenced = b]
    /\ ret' = [op |-> "none"]
    /\ UNCHANGED <<next_id, machines, machines_by_leader, machines_by_unit,
                   machine_gc_queue, deferred_gc_event_source,
                   event_sources, gc_pc, gc_drop, gc_deferred,
                   survived>>
    /\ UNCHANGED resolver

\* ----------------------------------------------------- manager_enqueue_gc

\* A re-enable that leaves the task permanently on.
EnableModeOn == "on"

\* Line 164: an existing task is re-enabled as SD_EVENT_ONESHOT.
EnableMode == "oneshot"

\* An arm call that registers a task whether or not one exists.
EnqueueRegistersAlways(source) == TRUE

\* Line 163: a task is registered only when no handle is kept.
EnqueueRegisters(source) == source = "null"

\* The deferred task handle after manager_enqueue_gc. With a handle the
\* task is re-enabled as a one-shot (a failure is logged and ignored);
\* without one sd_event_add_defer registers it, enabled, and a failure
\* leaves no handle.
manager_enqueue_gc(source, ok) ==
    IF ~EnqueueRegisters(source)
    THEN IF ok THEN EnableMode ELSE source
    ELSE IF ok THEN "oneshot" ELSE source

\* How many tasks the call adds to the event loop: one when
\* sd_event_add_defer is reached and succeeds.
Registered(source, ok) == IF EnqueueRegisters(source) /\ ok THEN 1 ELSE 0

\* enqueue_gc(machine): no-op if already queued; otherwise mark, append and
\* arm the deferred task.
machine_add_to_gc_queue(id, ok) ==
    /\ gc_pc = "idle"
    /\ id \in machines
    /\ IF mach[id].in_gc_queue
       THEN UNCHANGED <<mach, machine_gc_queue, deferred_gc_event_source,
                        event_sources,
                        survived>>
       ELSE /\ mach' = [mach EXCEPT ![id].in_gc_queue = TRUE]
            /\ machine_gc_queue' = Append(machine_gc_queue, id)
            /\ event_sources' =
                   event_sources + Registered(deferred_gc_event_source, ok)
            /\ deferred_gc_event_source' =
                   manager_enqueue_gc(deferred_gc_event_source, ok)
            /\ survived' = survived \ {id}
    /\ ret' = [op |-> "enqueue", machine |-> id,
               queued |-> mach[id].in_gc_queue]
    /\ UNCHANGED <<next_id, machines, machines_by_leader, machines_by_unit,
                   gc_pc, gc_drop, gc_deferred>>
    /\ UNCHANGED resolver

\* ------------------------------------------------------------- manager_gc

\* run_gc(drop_not_started): a caller enters manager_gc.
RunGc(drop_not_started) ==
    /\ gc_pc = "idle"
    /\ gc_pc' = "loop"
    /\ gc_drop' = drop_not_started
    /\ gc_deferred' = FALSE
    /\ ret' = [op |-> "none"]
    /\ UNCHANGED <<registry, machine_gc_queue, deferred_gc_event_source,
                   event_sources,
                   survived>>
    /\ UNCHANGED resolver

\* A handler that leaves not-yet-started machines alone.
DeferredKeepsNotStarted == FALSE

\* Line 154: manager_gc(userdata, /* drop_not_started= */ true).
DeferredDropNotStarted == TRUE

\* on_deferred_gc: the event loop dispatches the enabled task (a one-shot
\* task is switched off as it is dispatched) and the handler enters
\* manager_gc with drop_not_started = true.
on_deferred_gc ==
    /\ gc_pc = "idle"
    /\ deferred_gc_event_source \in {"oneshot", "on"}
    /\ deferred_gc_event_source' =
           IF deferred_gc_event_source = "oneshot" THEN "off" ELSE "on"
    /\ UNCHANGED event_sources
    /\ gc_pc' = "loop"
    /\ gc_drop' = DeferredDropNotStarted
    /\ gc_deferred' = TRUE
    /\ ret' = [op |-> "deferred_gc"]
    /\ UNCHANGED <<registry, machine_gc_queue, survived>>
    /\ UNCHANGED resolver

\* A pop that leaves the flag set.
GcPoppedKeepsFlag(m) == m

\* LIST_POP and machine->in_gc_queue = false.
GcPopped(m) == [m EXCEPT !.in_gc_queue = FALSE]

\* A stop attempt that is repeated on a machine already closing.
GcShouldStopAgain(m, drop_not_started) == machine_may_gc(m, drop_not_started)

\* "First, if we are not closing yet, initiate stopping".
GcShouldStop(m, drop_not_started) ==
    /\ machine_may_gc(m, drop_not_started)
    /\ machine_get_state(m) # "closing"

\* A re-check that forgets the caller's drop_not_started.
GcShouldFreeAnyState(m, drop_not_started) == machine_may_gc(m, TRUE)

\* No re-check: whatever was stopped is destroyed.
GcShouldFreeUnchecked(m, drop_not_started) ==
    m.state = "closing" \/ machine_may_gc(m, drop_not_started)

\* The re-check after the stop: "if it didn't, then it's time to let it go".
GcShouldFree(m, drop_not_started) == machine_may_gc(m, drop_not_started)

\* A destruction that leaves the machine's index entries behind.
GcFreedKeepsEntry(entries, machine) == entries

\* Lines 147-148, machine_finalize and machine_free: an index after the
\* machine was destroyed.
GcFreed(entries, machine) == entries \ {machine}

\* One turn of the while loop: pop the head, clear its flag, stop it if it
\* may be collected and is not closing, then re-check and destroy it.
\* rereference, reenqueue and other are what the stop does: leave the
\* machine referenced, put it back on the queue, put another machine
\* (other, 0 for none) on the queue; an enqueue arms the deferred task,
\* which succeeds or not (ok).
GcIterate(rereference, reenqueue, other, ok) ==
    /\ gc_pc = "loop"
    /\ machine_gc_queue # << >>
    /\ LET head == Head(machine_gc_queue)
           m0 == GcPopped(mach[head])
           stop == GcShouldStop(m0, gc_drop)
           requeued == stop /\ reenqueue
           also == stop /\ other \in machines \ {head}
                        /\ ~mach[other].in_gc_queue
           m1 == IF stop
                 THEN [machine_stop(m0, rereference)
                           EXCEPT !.in_gc_queue = requeued]
                 ELSE m0
           q0 == IF requeued
                 THEN Append(Tail(machine_gc_queue), head)
                 ELSE Tail(machine_gc_queue)
           q1 == IF also THEN Append(q0, other) ELSE q0
           objects == IF also
                      THEN [mach EXCEPT ![other].in_gc_queue = TRUE]
                      ELSE mach
           kept == IF also THEN survived \ {other} ELSE survived
           free == GcShouldFree(m1, gc_drop)
       IN
       \* inputs the turn does not use are left at their defaults
       /\ ~stop => ~rereference /\ ~reenqueue
       /\ ~also => other = 0
       /\ ~(requeued \/ also) => ~ok
       /\ IF free
          THEN \* machine_finalize, machine_free: out of every index and,
               \* if queued, out of the queue.
               /\ mach' = [i \in DOMAIN mach \ {head} |-> objects[i]]
               /\ machines' = GcFreed(machines, head)
               /\ machines_by_leader' = GcFreed(machines_by_leader, head)
               /\ machines_by_unit' = GcFreed(machines_by_unit, head)
               /\ machine_gc_queue' =
                      IF m1.in_gc_queue THEN RemoveFromQueue(q1, head) ELSE q1
               /\ survived' = kept \ {head}
          ELSE /\ mach' = [objects EXCEPT ![head] = m1]
               /\ machine_gc_queue' = q1
               /\ survived' = IF stop /\ ~requeued
                              THEN kept \cup {head}
                              ELSE kept \ {head}
               /\ UNCHANGED <<machines, machines_by_leader, machines_by_unit>>
       /\ event_sources' =
              IF requeued \/ also
              THEN event_sources + Registered(deferred_gc_event_source, ok)
              ELSE event_sources
       /\ deferred_gc_event_source' =
              IF requeued \/ also
              THEN manager_enqueue_gc(deferred_gc_event_source, ok)
              ELSE deferred_gc_event_source
       /\ ret' = [op |-> "gc", machine |-> head, drop |-> gc_drop,
                  state |-> m0.state, referenced |-> m0.referenced,
                  stopped |-> stop, rereferenced |-> m1.referenced,
                  requeued |-> requeued, freed |-> free]
    /\ UNCHANGED <<next_id, gc_pc, gc_drop, gc_deferred>>
    /\ UNCHANGED resolver

\* LIST_POP returned NULL: the loop, and manager_gc, end.
GcReturn ==
    /\ gc_pc = "loop"
    /\ machine_gc_queue = << >>
    /\ gc_pc' = "idle"
    /\ gc_drop' = FALSE
    /\ gc_deferred' = FALSE
    /\ ret' = [op |-> "none"]
    /\ UNCHANGED <<registry, machine_gc_queue, deferred_gc_event_source,
                   event_sources,
                   survived>>
    /\ UNCHANGED resolver

\* -------------------------------------------------- machine_get_addresses

\* The longest address list local_addresses returns.
MaxAddrs == 2

AllClasses == {"invalid", "host", "container", "vm"}
Families == {"AF_INET", "AF_INET6"}
Addresses ==
    {[family |-> "AF_INET", address |-> "10.0.0.5"],
     [family |-> "AF_INET", address |-> "10.0.0.6"],
     [family |-> "AF_INET6", address |-> "fe80::1"]}
AddressLists == UNION {[1..k -> Addresses] : k \in 0..MaxAddrs}

\* local_addresses(NULL, 0, AF_UNSPEC, &addresses): n < 0, or the list.
LocalResults ==
    {[err |-> "errno", addresses |-> << >>]}
        \cup {[err |-> "", addresses |-> l] : l \in AddressLists}

\* sizeof(family), the tag of a record.
TagSize == 4

\* 4 address bytes for IPv4, 16 for IPv6.
FAMILY_ADDRESS_SIZE(family) == IF family = "AF_INET6" THEN 16 ELSE 4

\* A worker that always sends four address bytes.
WorkerRecordLenIPv4Only(family) == TagSize + 4

\* The two iovecs the worker hands to writev for one address.
WorkerRecordLen(family) == TagSize + FAMILY_ADDRESS_SIZE(family)

\* What writev may return for a record of full bytes: -1, the whole
\* record, or a short count (the worker tests r < 0 only).
ShortLengths(full) ==
    {n \in {1, TagSize - 1, TagSize, TagSize + 4, full - 1} : n < full}
WritevResults(full) == {-1, full} \cup ShortLengths(full)

ParentFds == {"p0", "p1", "netns"}
WorkerFds == {"w0", "w1"}

\* The value machine_get_addresses returns: r < 0 as err, else n and the
\* list handed out through ret_addresses; reterr is *reterr_errno.
Returned(err, reterr) ==
    [op |-> "resolve", err |-> err, n |-> 0, returned |-> FALSE,
     addresses |-> << >>, reterr |-> reterr]
ReturnedList(l) ==
    [op |-> "resolve", err |-> "", n |-> Len(l), returned |-> TRUE,
     addresses |-> l, reterr |-> "unset"]

\* A switch that sends every class with a leader to the worker path.
ClassPathForksForVM(class) ==
    CASE class = "host" -> "local"
      [] class \in {"container", "vm"} -> "worker"
      [] OTHER -> "unsupported"

\* The switch on machine->class.
ClassPath(class) ==
    CASE class = "host" -> "local"
      [] class = "container" -> "worker"
      [] OTHER -> "unsupported"

\* MACHINE_HOST: the caller's own enumeration, or its error.
HostResult(local) ==
    IF local.err # "" THEN Returned(local.err, "unset")
    ELSE ReturnedList(local.addresses)

\* MACHINE_CONTAINER up to the fork. outcome names the first call that
\* does not go on: in_same_namespace failing or answering "same",
\* pidref_namespace_open, socketpair or namespace_fork failing, or none.
ContainerOutcomes ==
    {"same_ns_failed", "same_ns", "netns_open_failed", "socketpair_failed",
     "fork_failed", "ok"}

\* The namespace handle opened before the same-namespace guard.
ContainerAcquiredBeforeGuard(outcome) ==
    CASE outcome \in {"same_ns_failed", "netns_open_failed"} -> {}
      [] outcome \in {"same_ns", "socketpair_failed"} -> {"netns"}
      [] outcome = "fork_failed" -> {"netns", "pair"}
      [] OTHER -> {"netns", "pair", "child"}

\* What the call has acquired when it stops at outcome.
ContainerAcquired(outcome) ==
    CASE outcome \in {"same_ns_failed", "same_ns", "netns_open_failed"} -> {}
      [] outcome = "socketpair_failed" -> {"netns"}
      [] outcome = "fork_failed" -> {"netns", "pair"}
      [] OTHER -> {"netns", "pair", "child"}

\* What it returns there.
ContainerEarlyResult(outcome) ==
    CASE outcome = "same_ns" -> Returned("ENONET", "same_ns")
      [] outcome = "fork_failed" -> Returned("ENOEXEC", "fork")
      [] OTHER -> Returned("errno", "unset")

\* A parent that enters the receive loop with its copy of pair[1] open.
ParentLoopFdsKeepWorkerEnd == {"p0", "p1", "netns"}

\* The parent's descriptors when it enters the receive loop: pair[1] is
\* closed.
ParentLoopFds == {"p0", "netns"}

machine_get_addresses(id, outcome, local) ==
    /\ p_pc = "idle"
    /\ gc_pc = "idle"
    /\ id \in machines
    /\ p_machine' = id
    /\ LET path == ClassPath(mach[id].class) IN
       CASE path = "local" ->
               /\ enumerated' = local
               /\ ret' = HostResult(local)
               /\ p_pc' = "done"
               /\ UNCHANGED <<fds, acquired, w_pc, p_env>>
         [] path = "worker" /\ outcome # "ok" ->
               /\ p_env' = [p_env EXCEPT !.begin = outcome]
               /\ acquired' = ContainerAcquired(outcome)
               /\ ret' = ContainerEarlyResult(outcome)
               /\ p_pc' = "done"
               /\ UNCHANGED <<fds, w_pc, enumerated>>
         [] path = "worker" /\ outcome = "ok" ->
               /\ p_env' = [p_env EXCEPT !.begin = outcome]
               /\ acquired' = ContainerAcquired(outcome)
               /\ fds' = ParentLoopFds \cup WorkerFds
               /\ w_pc' = "start"
               /\ p_pc' = "recv"
               /\ ret' = [op |-> "none"]
               /\ UNCHANGED enumerated
         [] OTHER ->
               /\ ret' = Returned("ENOTSUP", "unset")
               /\ p_pc' = "done"
               /\ UNCHANGED <<fds, acquired, w_pc, enumerated, p_env>>
    /\ UNCHANGED <<chan, list, w_addrs, w_i, w_status, w_short, p_n, reaped>>
    /\ UNCHANGED <<registry, gc>>

\* ---- the worker

\* The worker closes pair[0] and enumerates; on failure it exits at once.
WorkerStart(local) ==
    /\ w_pc = "start"
    /\ IF local.err # ""
       THEN /\ w_pc' = "dead"
            /\ w_status' = "failure"
            /\ fds' = fds \ WorkerFds
            /\ UNCHANGED <<w_addrs, w_i>>
       ELSE /\ w_pc' = "write"
            /\ w_addrs' = local.addresses
            /\ w_i' = 1
            /\ fds' = fds \ {"w0"}
            /\ UNCHANGED w_status
    /\ UNCHANGED <<p_pc, p_machine, acquired, chan, list, w_short, p_env,
                   p_n, enumerated, reaped, ret>>
    /\ UNCHANGED <<registry, gc>>

\* One turn of the worker's loop: writev of the family and the address.
\* With the peer endpoint closed the write fails.
WorkerWrite(r) ==
    /\ w_pc = "write"
    /\ w_i <= Len(w_addrs)
    /\ LET a == w_addrs[w_i]
           full == WorkerRecordLen(a.family)
       IN
       /\ r \in WritevResults(full)
       /\ "p0" \notin fds => r = -1
       /\ IF r < 0
          THEN /\ w_pc' = "dead"
               /\ w_status' = "failure"
               /\ fds' = fds \ WorkerFds
               /\ UNCHANGED <<chan, w_i, w_short>>
          ELSE /\ chan' = Append(chan, [family |-> a.family,
                                        address |-> a.address, len |-> r])
               /\ w_i' = w_i + 1
               /\ w_short' = IF r < full /\ w_short = NoShort
                             THEN [at |-> w_i, len |-> r]
                             ELSE w_short
               /\ UNCHANGED <<w_pc, w_status, fds>>
    /\ UNCHANGED <<p_pc, p_machine, acquired, list, w_addrs, p_env, p_n,
                   enumerated, reaped, ret>>
    /\ UNCHANGED <<registry, gc>>

\* After the last record the worker closes pair[1] ...
WorkerClose ==
    /\ w_pc = "write"
    /\ w_i > Len(w_addrs)
    /\ w_pc' = "exit"
    /\ fds' = fds \ {"w1"}
    /\ UNCHANGED <<p_pc, p_machine, acquired, chan, list, w_addrs, w_i,
                   w_status, w_short, p_env, p_n, enumerated, reaped, ret>>
    /\ UNCHANGED <<registry, gc>>

\* ... and exits with EXIT_SUCCESS.
WorkerExit ==
    /\ w_pc = "exit"
    /\ w_pc' = "dead"
    /\ w_status' = "success"
    /\ fds' = fds \ WorkerFds
    /\ UNCHANGED <<p_pc, p_machine, acquired, chan, list, w_addrs, w_i,
                   w_short, p_env, p_n, enumerated, reaped, ret>>
    /\ UNCHANGED <<registry, gc>>

\* The worker is killed by a signal.
WorkerKilled ==
    /\ w_pc \in {"start", "write", "exit"}
    /\ w_pc' = "dead"
    /\ w_status' = "killed"
    /\ fds' = fds \ WorkerFds
    /\ UNCHANGED <<p_pc, p_machine, acquired, chan, list, w_addrs, w_i,
                   w_short, p_env, p_n, enumerated, reaped, ret>>
    /\ UNCHANGED <<registry, gc>>

\* ---- the parent

\* n < sizeof(family): the loop ends.
RecvEndsLoop(n) == n < TagSize

\* A length test that only asks for a whole tag and some address bytes.
RecvWellFormedLoose(n, family) == n > TagSize

\* n = sizeof(family) + FAMILY_ADDRESS_SIZE(family): a well-formed record.
RecvWellFormed(n, family) == n = TagSize + FAMILY_ADDRESS_SIZE(family)

\* add_local_address: the decoded record joins the list.
add_local_address(l, family, address) ==
    Append(l, [family |-> family, address |-> address])

\* End of stream: nothing in flight and no descriptor of pair[1] open.
EndOfStream == chan = << >> /\ fds \cap {"p1", "w1"} = {}

RecvOutcomes == {"ok", "recv_failed", "append_failed"}

\* One turn of the parent's loop: recvmsg_safe, the two length tests,
\* add_local_address.
ParentRecv(outcome) ==
    /\ p_pc = "recv"
    /\ IF outcome = "recv_failed"
       THEN /\ p_pc' = "done"
            /\ p_env' = [p_env EXCEPT !.fault = "recvmsg"]
            /\ ret' = Returned("errno", "unset")
            /\ fds' = fds \ ParentFds
            /\ UNCHANGED <<chan, list, p_n>>
       ELSE /\ chan # << >> \/ EndOfStream
            /\ LET n == IF chan = << >> THEN 0 ELSE Head(chan).len
                   family == Head(chan).family
               IN
               /\ chan' = IF chan = << >> THEN chan ELSE Tail(chan)
               /\ p_n' = n
               /\ IF RecvEndsLoop(n)
                  THEN /\ p_pc' = "wait"
                       /\ UNCHANGED <<list, fds, ret, p_env>>
                  ELSE IF ~RecvWellFormed(n, family)
                  THEN /\ p_pc' = "done"
                       /\ ret' = Returned("EIO", "unset")
                       /\ fds' = fds \ ParentFds
                       /\ UNCHANGED <<list, p_env>>
                  ELSE IF outcome = "append_failed"
                  THEN /\ p_pc' = "done"
                       /\ p_env' = [p_env EXCEPT !.fault = "append"]
                       /\ ret' = Returned("errno", "unset")
                       /\ fds' = fds \ ParentFds
                       /\ UNCHANGED list
                  ELSE /\ list' = add_local_address(list, family,
                                                    Head(chan).address)
                       /\ UNCHANGED <<p_pc, fds, ret, p_env>>
    /\ UNCHANGED <<p_machine, acquired, w_pc, w_addrs, w_i, w_status, w_short,
                   enumerated, reaped>>
    /\ UNCHANGED <<registry, gc>>

\* A return that does not look at the exit status.
WaitResultIgnoresStatus(status, failed, l) ==
    IF failed \/ status = "killed" THEN Returned("ECHILD", "wait")
    ELSE ReturnedList(l)

\* What the call returns once wait_for_terminate_and_check has answered:
\* status is the worker's fate, failed a failure of the wait itself.
WaitResult(status, failed, l) ==
    IF failed \/ status = "killed" THEN Returned("ECHILD", "wait")
    ELSE IF status # "success" THEN Returned("ESHUTDOWN", "unset")
    ELSE ReturnedList(l)

\* wait_for_terminate_and_check and the return.
ParentWait(failed) ==
    /\ p_pc = "wait"
    /\ w_pc = "dead"
    /\ p_pc' = "done"
    /\ reaped' = ~failed
    /\ p_env' = IF failed THEN [p_env EXCEPT !.fault = "wait"] ELSE p_env
    /\ ret' = WaitResult(w_status, failed, list)
    /\ fds' = fds \ ParentFds
    /\ UNCHANGED <<p_machine, acquired, chan, list, w_pc, w_addrs, w_i,
                   w_status, w_short, p_n, enumerated>>
    /\ UNCHANGED <<registry, gc>>

\* The caller has its answer; nothing of the call is left.
ResolveDone ==
    /\ p_pc = "done"
    /\ w_pc \in {"none", "dead"}
    /\ p_pc' = "idle"
    /\ p_machine' = 0
    /\ fds' = {}
    /\ acquired' = {}
    /\ chan' = << >>
    /\ list' = << >>
    /\ w_pc' = "none"
    /\ w_addrs' = << >>
    /\ w_i' = 0
    /\ w_status' = "none"
    /\ w_short' = NoShort
    /\ p_env' = NoEnv
    /\ p_n' = -1
    /\ enumerated' = [err |-> "", addresses |-> << >>]
    /\ reaped' = FALSE
    /\ ret' = [op |-> "none"]
    /\ UNCHANGED <<registry, gc>>

\* A registry holding one machine of each class, as the collaborators (and
\* the host registration at startup) leave it.
InitAddr ==
    /\ mach = [id \in 1..4 |->
                 LET class == <<"invalid", "host", "container", "vm">>[id] IN
                 [machine_new(id, <<"a", ".host", "b", "c">>[id])
                     EXCEPT !.class = class,
                            !.state = IF id = 1 THEN "opening" ELSE "running",
                            !.leader = IF id = 1 THEN 0 ELSE LeaderOf(id),
                            !.unit = IF id = 1 THEN ""
                                     ELSE UnitOfLeader(LeaderOf(id))]]
    /\ next_id = 4
    /\ machines = 1..4
    /\ machines_by_leader = 2..4
    /\ machines_by_unit = 2..4
    /\ machine_gc_queue = << >>
    /\ deferred_gc_event_source = "null"
    /\ event_sources = 0
    /\ gc_pc = "idle"
    /\ gc_drop = FALSE
    /\ gc_deferred = FALSE
    /\ survived = {}
    /\ ret = [op |-> "init"]
    /\ ResolverIdle

NextAddr ==
    \/ \E id \in 1..4, o \in ContainerOutcomes, l \in LocalResults :
           machine_get_addresses(id, o, l)
    \/ \E l \in LocalResults : WorkerStart(l)
    \/ \E r \in -1..(TagSize + 16) : WorkerWrite(r)
    \/ WorkerClose
    \/ WorkerExit
    \/ WorkerKilled
    \/ \E o \in RecvOutcomes : ParentRecv(o)
    \/ \E f \in BOOLEAN : ParentWait(f)
    \/ ResolveDone

SpecAddr == InitAddr /\ [][NextAddr]_vars

\* Both processes are scheduled: the worker takes its next step unless it
\* is killed, a receive that can return does, and the wait returns once
\* the worker has terminated.  Failures of the parent's own calls are not
\* forced.
WorkerStep ==
    \/ \E l \in LocalResults : WorkerStart(l)
    \/ \E r \in -1..(TagSize + 16) : WorkerWrite(r)
    \/ WorkerClose
    \/ WorkerExit

SpecAddrFair ==
    /\ SpecAddr
    /\ WF_vars(WorkerStep)
    /\ WF_vars(ParentRecv("ok"))
    /\ WF_vars(ParentWait(FALSE))

\* ------------------------------------------------------------ the lookups

\* Host ids a lookup is asked about, and the ranges machines are given: a
\* machine owns the MaxRange-bounded block of host ids that starts at its
\* shift.  Ranges are disjoint by policy only, so overlapping ones occur.
MaxRange == 2
UidShifts == {0, 2}
UidRanges == 0..MaxRange
HostIds == 0..(2 + MaxRange)

\* (uid_t) -1 and (gid_t) -1, outside every range.
UID_INVALID == -1
GID_INVALID == -1

\* machine_owns_uid: whether the host uid falls inside the machine's range,
\* and the uid it maps to inside the machine (translated by the shift).  A
\* machine whose range cannot be read (failed) yields an error.
machine_owns_uid(m, uid, failed) ==
    IF failed THEN [r |-> -1, converted |-> UID_INVALID]
    ELSE IF uid >= m.uid_shift /\ uid < m.uid_shift + m.uid_range
         THEN [r |-> 1, converted |-> uid - m.uid_shift]
         ELSE [r |-> 0, converted |-> UID_INVALID]

machine_owns_gid(m, gid, failed) ==
    IF failed THEN [r |-> -1, converted |-> GID_INVALID]
    ELSE IF gid >= m.gid_shift /\ gid < m.gid_shift + m.gid_range
         THEN [r |-> 1, converted |-> gid - m.gid_shift]
         ELSE [r |-> 0, converted |-> GID_INVALID]

\* The orders HASHMAP_FOREACH may visit a set of entries in.
Orders(S) ==
    {o \in [1..Cardinality(S) -> S] : \A i, j \in 1..Cardinality(S) :
                                          i # j => o[i] # o[j]}

\* What a uid/gid lookup hands back: the status, whether the two output
\* parameters were written, and their values (machine 0: NULL).
UidFoundKeepsHostUid(id, converted, uid) ==
    [r |-> 1, set |-> TRUE, machine |-> id, internal |-> uid]

UidFound(id, converted, uid) ==
    [r |-> 1, set |-> TRUE, machine |-> id, internal |-> converted]

UidNotFound == [r |-> 0, set |-> TRUE, machine |-> 0, internal |-> UID_INVALID]

GidFound(id, converted, gid) ==
    [r |-> 1, set |-> TRUE, machine |-> id, internal |-> converted]

GidNotFound == [r |-> 0, set |-> TRUE, machine |-> 0, internal |-> GID_INVALID]

LookupError(r) == [r |-> r, set |-> FALSE, machine |-> 0, internal |-> 0]

\* manager_find_machine_for_uid: the loop over m->machines in the order the
\* hashmap yields them; failing are the machines whose translation fails.
RECURSIVE manager_find_machine_for_uid(_, _, _)
manager_find_machine_for_uid(order, uid, failing) ==
    IF order = << >> THEN UidNotFound
    ELSE LET machine == Head(order)
             o == machine_owns_uid(mach[machine], uid, machine \in failing)
         IN IF o.r < 0 THEN LookupError(o.r)
            ELSE IF o.r > 0 THEN UidFound(machine, o.converted, uid)
            ELSE manager_find_machine_for_uid(Tail(order), uid, failing)

RECURSIVE manager_find_machine_for_gid(_, _, _)
manager_find_machine_for_gid(order, gid, failing) ==
    IF order = << >> THEN GidNotFound
    ELSE LET machine == Head(order)
             o == machine_owns_gid(mach[machine], gid, machine \in failing)
         IN IF o.r < 0 THEN LookupError(o.r)
            ELSE IF o.r > 0 THEN GidFound(machine, o.converted, gid)
            ELSE manager_find_machine_for_gid(Tail(order), gid, failing)

FindMachineForUid(uid, order, failing) ==
    /\ gc_pc = "idle"
    /\ ret' = [op |-> "find_uid", id |-> uid, failing |-> failing,
               res |-> manager_find_machine_for_uid(order, uid, failing)]
    /\ UNCHANGED <<registry, gc, resolver>>

FindMachineForGid(gid, order, failing) ==
    /\ gc_pc = "idle"
    /\ ret' = [op |-> "find_gid", id |-> gid, failing |-> failing,
               res |-> manager_find_machine_for_gid(order, gid, failing)]
    /\ UNCHANGED <<registry, gc, resolver>>

\* hashmap_get on the leader and unit indices: the entry, 0 for NULL.
hashmap_get_leader(pid) ==
    IF \E id \in machines_by_leader : mach[id].leader = pid
    THEN CHOOSE id \in machines_by_leader : mach[id].leader = pid
    ELSE 0

hashmap_get_unit(unit) ==
    IF \E id \in machines_by_unit : mach[id].unit = unit
    THEN CHOOSE id \in machines_by_unit : mach[id].unit = unit
    ELSE 0

\* The processes a lookup is asked about (two leaders, one other process)
\* and what cg_pid_get_unit answers for one: an error or a unit name.
QueriedPids == {LeaderOf(1), LeaderOf(2), 201}
CgAnswers ==
    {[r |-> -1, unit |-> << >>]}
        \cup {[r |-> 0, unit |-> UnitOfLeader(p)] : p \in QueriedPids}

\* Line 22: the unit is derived, and the unit index consulted, only when
\* the leader index had no entry.
PidConsultsUnitAlways(mm) == TRUE

PidConsultsUnit(mm) == mm = 0

\* manager_get_machine_by_pid: the status, the machine handed back (0:
\* NULL) and whether the unit index was consulted.
manager_get_machine_by_pid(pid, cg) ==
    LET by_leader == hashmap_get_leader(pid)
        consult == PidConsultsUnit(by_leader)
        mm == IF ~consult THEN by_leader
              ELSE IF cg.r >= 0 THEN hashmap_get_unit(cg.unit)
              ELSE by_leader
    IN [r |-> IF mm = 0 THEN 0 ELSE 1, machine |-> mm,
        consulted |-> consult /\ cg.r >= 0]

GetMachineByPid(pid, cg) ==
    /\ gc_pc = "idle"
    /\ ret' = [op |-> "find_pid", pid |-> pid, cg |-> cg,
               res |-> manager_get_machine_by_pid(pid, cg)]
    /\ UNCHANGED <<registry, gc, resolver>>

\* A registry of up to two containers, each with a uid range and a gid
\* range laid out differently from it; a machine that completed setup is in
\* the leader and unit indices.
InitLookup ==
    /\ \E live \in {{}, {1}, {1, 2}}, setup \in SUBSET {1, 2} :
         /\ setup \subseteq live
         /\ machines = live
         /\ machines_by_leader = setup
         /\ machines_by_unit = setup
         /\ next_id = Cardinality(live)
         /\ \E us \in [live -> UidShifts], ur \in [live -> UidRanges] :
              mach = [id \in live |->
                        [machine_new(id, <<"a", "b">>[id])
                            EXCEPT !.class = IF id \in setup THEN "container"
                                             ELSE "invalid",
                                   !.leader = IF id \in setup THEN LeaderOf(id)
                                              ELSE 0,
                                   !.unit = IF id \in setup
                                            THEN UnitOfLeader(LeaderOf(id))
                                            ELSE "",
                                   !.uid_shift = us[id], !.uid_range = ur[id],
                                   !.gid_shift = 2 - us[id],
                                   !.gid_range = MaxRange - ur[id]]]
    /\ machine_gc_queue = << >>
    /\ deferred_gc_event_source = "null"
    /\ event_sources = 0
    /\ gc_pc = "idle"
    /\ gc_drop = FALSE
    /\ gc_deferred = FALSE
    /\ survived = {}
    /\ ret = [op |-> "init"]
    /\ ResolverIdle

NextLookup ==
    \/ \E uid \in HostIds, o \in Orders(machines), f \in SUBSET machines :
           FindMachineForUid(uid, o, f)
    \/ \E gid \in HostIds, o \in Orders(machines), f \in SUBSET machines :
           FindMachineForGid(gid, o, f)
    \/ \E pid \in QueriedPids, cg \in CgAnswers : GetMachineByPid(pid, cg)

SpecLookup == InitLookup /\ [][NextLookup]_vars

\* ------------------------------------------------------------------- Next

Next ==
    \/ \E name \in Names, o \in AddOutcomes : manager_add_machine(name, o)
    \/ \E id \in Ids, c \in Classes : MachineSetup(id, c)
    \/ \E id \in Ids : MachineStarted(id)
    \/ \E id \in Ids, b \in BOOLEAN : SetReferenced(id, b)
    \/ \E id \in Ids, ok \in BOOLEAN : machine_add_to_gc_queue(id, ok)
    \/ \E d \in BOOLEAN : RunGc(d)
    \/ on_deferred_gc
    \/ \E rr \in BOOLEAN, rq \in BOOLEAN, o \in {0} \cup Ids, ok \in BOOLEAN :
           GcIterate(rr, rq, o, ok)
    \/ GcReturn

Spec == Init /\ [][Next]_vars

\* The event loop keeps iterating: a running manager_gc takes its next
\* step, and an enabled deferred task is eventually dispatched however
\* often direct passes run in between.
GcTurn ==
    \E rr \in BOOLEAN, rq \in BOOLEAN, o \in {0} \cup Ids, ok \in BOOLEAN :
        GcIterate(rr, rq, o, ok)

SpecFair ==
    Spec /\ WF_vars(GcTurn \/ GcReturn) /\ SF_vars(on_deferred_gc)

\* ------------------------------------------------------------- properties

InQueue(id) == \E i \in 1..Len(machine_gc_queue) : machine_gc_queue[i] = id
TimesInQueue(id) ==
    Cardinality({i \in 1..Len(machine_gc_queue) : machine_gc_queue[i] = id})

\* C1: register_machine(name) is an idempotent get-or-create. The name
\* index never holds two machines of one name; a call for a registered name
\* returns the machine registered under it and changes no machine, no index
\* and no queue; a call for an unregistered name that succeeds creates one
\* machine, in state Opening and unclassified, and enters it in the name
\* index only.
C1_RegisterIdempotent ==
    /\ [](\A i, j \in machines : mach[i].name = mach[j].name => i = j)
    /\ [][ret'.op = "add" =>
            LET old == hashmap_get_name(ret'.name) IN
            IF old # 0
            THEN /\ ret'.r = 0
                 /\ ret'.machine = old
                 /\ ~ret'.created
                 /\ UNCHANGED <<registry, gc>>
            ELSE /\ ret'.r = 0 <=> ret'.created
                 /\ ~ret'.created => UNCHANGED <<registry, gc>>
                 /\ ret'.created =>
                        /\ ret'.machine \notin DOMAIN mach
                        /\ machines' = machines \cup {ret'.machine}
                        /\ mach'[ret'.machine].name = ret'.name
                        /\ mach'[ret'.machine].state = "opening"
                        /\ mach'[ret'.machine].class = "invalid"
                        /\ \A i \in DOMAIN mach : mach'[i] = mach[i]
                        /\ UNCHANGED <<machines_by_leader, machines_by_unit,
                                       gc>>
       ]_vars

\* C1 witness: a second registration of a name whose machine has been set
\* up, started and queued meanwhile returned that machine, while another
\* name is registered too.
C1_Witness ==
    /\ ret.op = "add" /\ ret.r = 0 /\ ~ret.created
    /\ ret.machine \in machines
    /\ mach[ret.machine].state = "running"
    /\ mach[ret.machine].class = "container"
    /\ mach[ret.machine].in_gc_queue
    /\ Cardinality(machines) = 2

\* C2: a machine is in the GC queue at most once, and its in_gc_queue flag
\* is set exactly when it is in the queue; every queue entry is a live
\* machine. (The pop and the clearing of the flag are one step, so this
\* holds between any two steps of a pass too.)
C2_QueuedOnceAndFlagged ==
    /\ \A id \in DOMAIN mach :
           /\ TimesInQueue(id) <= 1
           /\ mach[id].in_gc_queue <=> InQueue(id)
    /\ \A i \in 1..Len(machine_gc_queue) : machine_gc_queue[i] \in DOMAIN mach

\* C2 witness: enqueue_gc was called for a machine that was already queued
\* (no drain between), and the machine is in the queue once, behind another.
C2_Witness ==
    /\ ret.op = "enqueue" /\ ret.queued
    /\ TimesInQueue(ret.machine) = 1
    /\ Len(machine_gc_queue) = 2
    /\ gc_pc = "idle"

\* C3: a pass that examines a machine in state Opening with no outstanding
\* external reference destroys it exactly when it runs with
\* drop_not_started: without it the machine is neither stopped nor
\* destroyed, it only leaves the queue; with it the machine is stopped and,
\* unless that stop left it referenced, destroyed.
C3_OpeningDroppedOnlyOnRequest ==
    (ret.op = "gc" /\ ret.state = "opening" /\ ~ret.referenced) =>
        /\ ~gc_drop =>
               /\ ~ret.stopped /\ ~ret.freed
               /\ ret.machine \in machines
               /\ mach[ret.machine].state = "opening"
               /\ ~mach[ret.machine].in_gc_queue
               /\ ~InQueue(ret.machine)
        /\ gc_drop =>
               /\ ret.stopped
               /\ ~ret.rereferenced =>
                      (ret.freed /\ ret.machine \notin DOMAIN mach
                                /\ ret.machine \notin machines)
        /\ ret.freed => gc_drop

\* C3 witness: a pass with drop_not_started stopped and destroyed an
\* unreferenced machine that was still Opening.
C3_Witness ==
    /\ ret.op = "gc" /\ ret.state = "opening" /\ ~ret.referenced
    /\ gc_drop /\ ret.stopped /\ ret.freed
    /\ ret.machine \notin machines

\* C4: a machine that the stop of a pass left referenced is not destroyed
\* by that pass; from then until enqueue_gc is called for it again it stays
\* registered, with its flag clear and outside the queue, so no pass
\* examines it.
C4_RereferencedSurvives ==
    /\ (ret.op = "gc" /\ ret.stopped /\ ret.rereferenced) =>
           (~ret.freed /\ ret.machine \in machines)
    /\ \A id \in survived :
           /\ id \in machines
           /\ ~mach[id].in_gc_queue
           /\ ~InQueue(id)

\* C4 witness: the pass has ended, the machine it stopped and found
\* referenced is registered and not queued, and is unreferenced again.
C4_Witness ==
    /\ gc_pc = "idle"
    /\ \E id \in survived :
           /\ id \in machines
           /\ mach[id].state = "closing"
           /\ ~mach[id].referenced
           /\ ~mach[id].in_gc_queue

\* ---- machine_get_addresses

\* The call has returned, and it was about a machine of this class.
ReturnedFor(class) ==
    p_pc = "done" /\ ret.op = "resolve" /\ mach[p_machine].class = class

\* The worker was forked, and no call the parent made afterwards failed for
\* a reason of its own (recvmsg, the allocation in add_local_address, the
\* wait).
ForkedNoFault == "child" \in acquired /\ p_env.fault = "none"

\* C5: a container's worker enumerated a1..ak, wrote one whole record per
\* address, closed and exited with success: the call returns exactly
\* a1..ak (count, order, family, address), and the worker has been waited
\* for. This holds however the writes and the receives interleave.
C5_RoundTrip ==
    (/\ ReturnedFor("container") /\ ForkedNoFault
     /\ w_status = "success" /\ w_short = NoShort) =>
        /\ ret.err = ""
        /\ ret.returned
        /\ ret.addresses = w_addrs
        /\ ret.n = Len(w_addrs)
        /\ reaped
        /\ chan = << >>

\* C5 witness: two addresses of different families came back in order.
C5_Witness ==
    /\ ReturnedFor("container") /\ w_status = "success"
    /\ ret.err = "" /\ ret.n = 2
    /\ ret.addresses[1].family = "AF_INET6"
    /\ ret.addresses[2].family = "AF_INET"
    /\ reaped

\* C6: the worker wrote a record whose tag is whole but whose address is
\* shorter than the family needs: the call fails with the framing error
\* EIO and hands out no list, whatever whole records came before.
C6_TruncatedRecordIsFramingError ==
    (/\ ReturnedFor("container") /\ ForkedNoFault
     /\ w_short.at > 0 /\ w_short.len >= TagSize) =>
        /\ ret.err = "EIO"
        /\ ~ret.returned
        /\ ret.addresses = << >>
        /\ Len(list) = w_short.at - 1

\* C6 witness: the last of two records was truncated after a whole one was
\* received, the worker closed and exited with success, the call failed.
C6_Witness ==
    /\ ReturnedFor("container") /\ ForkedNoFault
    /\ w_short.at = 2 /\ w_short.len > TagSize /\ Len(w_addrs) = 2
    /\ w_status = "success"
    /\ Len(list) = 1
    /\ ret.err = "EIO"

\* C7 as stated: only a receive of length 0 ends the loop normally; a
\* shorter-than-tag receive of non-zero length is a framing error.
C7_OnlyZeroLengthEndsLoop ==
    /\ p_pc = "wait" => p_n = 0
    /\ (ReturnedFor("container") /\ ForkedNoFault
            /\ p_n > 0 /\ p_n < TagSize) => ret.err = "EIO"

\* C8: the worker exited with a failure status (its enumeration failed, and
\* then it wrote nothing, or a writev failed after whole records): the call
\* fails with ESHUTDOWN, not with EIO or ECHILD, and hands out no list,
\* however many records the parent had appended.
C8_WorkerFailureIsShutdown ==
    /\ (w_status = "failure" /\ w_i = 0) => (chan = << >> /\ list = << >>)
    /\ (/\ ReturnedFor("container") /\ ForkedNoFault
        /\ w_status = "failure" /\ w_short = NoShort) =>
           /\ ret.err = "ESHUTDOWN"
           /\ ret.err \notin {"EIO", "ECHILD", "errno", ""}
           /\ ~ret.returned
           /\ ret.addresses = << >>
           /\ reaped

\* C8 witness: a write failed after a whole record that the parent had
\* appended; the call failed with ESHUTDOWN.
C8_Witness ==
    /\ ReturnedFor("container") /\ ForkedNoFault
    /\ w_status = "failure" /\ w_i = 2
    /\ Len(list) = 1
    /\ ret.err = "ESHUTDOWN"

\* C9: for a container whose leader is in the caller's network namespace
\* the call fails with ENONET and sets *reterr_errno, and has by then
\* opened no namespace handle, created no channel and forked no worker.
C9_SharedNamespace ==
    (ReturnedFor("container") /\ p_env.begin = "same_ns") =>
        /\ ret.err = "ENONET"
        /\ ret.reterr = "same_ns"
        /\ ~ret.returned
        /\ acquired = {}
        /\ fds = {}
        /\ chan = << >>
        /\ w_pc = "none"

\* C9 witness: such a call has returned.
C9_Witness ==
    /\ ReturnedFor("container") /\ p_env.begin = "same_ns"
    /\ ret.err = "ENONET" /\ ret.reterr # "unset"

\* C10: only a container gets a worker. For the host the call returns what
\* local_addresses returned to the caller itself (the list, or its error);
\* for any other class it fails with ENOTSUP; neither creates a channel or
\* a worker, and no call changes the registry or the GC queue.
C10_ClassDispatch ==
    /\ [](/\ w_pc # "none" => mach[p_machine].class = "container"
          /\ acquired # {} => mach[p_machine].class = "container"
          /\ ReturnedFor("host") =>
                 /\ ret.err = enumerated.err
                 /\ ret.returned <=> enumerated.err = ""
                 /\ ret.addresses = enumerated.addresses
                 /\ ret.n = Len(enumerated.addresses)
                 /\ acquired = {} /\ fds = {} /\ w_pc = "none"
          /\ \A class \in {"vm", "invalid"} : ReturnedFor(class) =>
                 /\ ret.err = "ENOTSUP"
                 /\ ~ret.returned
                 /\ acquired = {} /\ fds = {} /\ w_pc = "none")
    /\ [][UNCHANGED <<registry, gc>>]_vars

\* C10 witness: a call for the host returned two addresses.
C10_Witness ==
    /\ ReturnedFor("host")
    /\ ret.err = "" /\ ret.n = 2 /\ ret.addresses = enumerated.addresses

\* The machines whose uid (gid) range holds a host id.
UidOwners(uid) ==
    {id \in machines : /\ uid >= mach[id].uid_shift
                       /\ uid < mach[id].uid_shift + mach[id].uid_range}

GidOwners(gid) ==
    {id \in machines : /\ gid >= mach[id].gid_shift
                       /\ gid < mach[id].gid_shift + mach[id].gid_range}

\* C11: when no machine's translation fails, manager_find_machine_for_uid
\* answers not-found (status 0, machine NULL, internal uid UID_INVALID) for
\* a uid outside every registered machine's range, and (machine, uid -
\* shift) for a uid inside exactly one machine's range; the gid lookup does
\* the same with the gid ranges; neither lookup changes the registry or
\* the GC queue.
C11_UidGidLookup ==
    /\ [](ret.op = "find_uid" /\ ret.failing = {} =>
            LET own == UidOwners(ret.id) IN
            /\ own = {} =>
                 ret.res = [r |-> 0, set |-> TRUE, machine |-> 0,
                            internal |-> UID_INVALID]
            /\ Cardinality(own) = 1 =>
                 \E id \in own :
                     ret.res = [r |-> 1, set |-> TRUE, machine |-> id,
                                internal |-> ret.id - mach[id].uid_shift])
    /\ [](ret.op = "find_gid" /\ ret.failing = {} =>
            LET own == GidOwners(ret.id) IN
            /\ own = {} =>
                 ret.res = [r |-> 0, set |-> TRUE, machine |-> 0,
                            internal |-> GID_INVALID]
            /\ Cardinality(own) = 1 =>
                 \E id \in own :
                     ret.res = [r |-> 1, set |-> TRUE, machine |-> id,
                                internal |-> ret.id - mach[id].gid_shift])
    /\ [][ret'.op \in {"find_uid", "find_gid"} => UNCHANGED <<registry, gc>>]_vars

\* A uid lookup found the one owner among two machines, and the owner's
\* shift is not zero.
C11_Witness ==
    /\ ret.op = "find_uid"
    /\ ret.failing = {}
    /\ Cardinality(machines) = 2
    /\ Cardinality(UidOwners(ret.id)) = 1
    /\ ret.res.r = 1
    /\ ret.res.internal # ret.id

\* C12: manager_get_machine_by_pid hands back the machine whose leader is
\* the pid when there is one, without consulting the unit index; otherwise
\* the machine whose unit is the one derived for the pid; otherwise NULL.
\* The status is 0 or 1, never an error (a failure to derive the unit gives
\* not-found), and it is 1 exactly when a machine is handed back.
C12_PidLookup ==
    ret.op = "find_pid" =>
        LET by_leader == {id \in machines_by_leader :
                              mach[id].leader = ret.pid}
            by_unit == IF ret.cg.r >= 0
                       THEN {id \in machines_by_unit :
                                 mach[id].unit = ret.cg.unit}
                       ELSE {}
        IN /\ ret.res.r \in {0, 1}
           /\ (ret.res.r = 1) <=> (ret.res.machine # 0)
           /\ by_leader # {} =>
                  ret.res.machine \in by_leader /\ ~ret.res.consulted
           /\ by_leader = {} /\ by_unit # {} => ret.res.machine \in by_unit
           /\ by_leader = {} /\ by_unit = {} => ret.res.machine = 0

\* The pid is machine 1's leader while its unit is the one machine 2 is
\* indexed under: the leader's machine is handed back.
C12_Witness ==
    /\ ret.op = "find_pid"
    /\ ret.res.machine = 1
    /\ 2 \in machines_by_unit
    /\ ret.cg.r >= 0
    /\ ret.cg.unit = mach[2].unit

\* C13: a manager_add_machine for an unregistered name that fails in
\* machine_new or machine_link returns the (negative) error and leaves the
\* live objects, the three indices and the GC queue exactly as they were,
\* so the name is still unregistered; a following successful call for the
\* same name takes the creation path and enters a new object.
C13_FailedAddLeavesNoTrace ==
    /\ [][ret'.op = "add" /\ ret'.r < 0 =>
            /\ UNCHANGED <<registry, gc>>
            /\ ret'.machine = 0
            /\ \A id \in machines' : mach'[id].name # ret'.name]_vars
    /\ [][/\ ret.op = "add" /\ ret.r < 0
          /\ ret'.op = "add" /\ ret'.name = ret.name /\ ret'.r = 0
          => /\ ret'.created
             /\ ret'.machine \notin DOMAIN mach
             /\ ret'.machine \in machines'
             /\ mach'[ret'.machine] = machine_new(ret'.machine, ret'.name)]_vars

\* machine_link failed for a name while another machine is registered.
C13_Witness ==
    /\ ret.op = "add"
    /\ ret.r = -2
    /\ machines # {}
    /\ \A id \in machines : mach[id].name # ret.name

\* What a pass still has to do: the queued entries, and the stops it can
\* still make (a stop moves a machine to Closing, once).
GcWork ==
    Len(machine_gc_queue)
        + 2 * Cardinality({id \in machines : mach[id].state # "closing"})

\* C14: a manager_gc pass terminates: while it runs it can always take its
\* next step, and every turn of the loop strictly decreases GcWork (a
\* natural number), also a turn whose stop puts the machine itself or
\* another machine back on the queue.  When the pass returns the queue is
\* empty and no registered machine has in_gc_queue set.
C14_GcPassTerminates ==
    /\ [](gc_pc = "loop" => ENABLED (GcTurn \/ GcReturn))
    /\ [][gc_pc = "loop" /\ gc_pc' = "loop" => GcWork' < GcWork]_vars
    /\ [][gc_pc = "loop" /\ gc_pc' = "idle" =>
            /\ machine_gc_queue' = << >>
            /\ \A id \in DOMAIN mach' : ~mach'[id].in_gc_queue]_vars

\* The stop of this turn put the machine back on the queue behind another
\* queued machine, and the machine was kept.
C14_Witness ==
    /\ gc_pc = "loop"
    /\ ret.op = "gc"
    /\ ret.stopped
    /\ ~ret.freed
    /\ Len(machine_gc_queue) >= 2
    /\ InQueue(ret.machine)

\* C15: in every reachable state each GC-queue entry and each entry of the
\* leader and unit indices is a machine present in the name index (and a
\* live object); a machine the GC pass destroyed is in none of the three
\* indices and not on the queue, also when its own stop had put it back on
\* the queue just before.
C15_NoDanglingEntries ==
    /\ \A i \in 1..Len(machine_gc_queue) : machine_gc_queue[i] \in machines
    /\ machines_by_leader \subseteq machines
    /\ machines_by_unit \subseteq machines
    /\ machines \subseteq DOMAIN mach
    /\ ret.op = "gc" /\ ret.freed =>
           /\ ret.machine \notin
                  machines \cup machines_by_leader \cup machines_by_unit
           /\ ret.machine \notin DOMAIN mach
           /\ ~InQueue(ret.machine)

\* A machine was stopped, put back on the queue by its stop, and destroyed
\* in the same turn, while other machines stay queued and indexed.
C15_Witness ==
    /\ ret.op = "gc"
    /\ ret.stopped
    /\ ret.requeued
    /\ ret.freed
    /\ machine_gc_queue # << >>
    /\ machines_by_leader # {}

\* C16 as stated: whenever machine_get_addresses returns after the worker
\* was forked, the parent has waited for the worker (the wait returned, or
\* it was called and failed itself), so no worker is left unreaped.
C16_WorkerAlwaysWaitedFor ==
    (p_pc = "done" /\ "child" \in acquired) =>
        (reaped \/ p_env.fault = "wait")

\* Some registered machine is not queued, so an arm call can be made.
CanArm == gc_pc = "idle" /\ \E id \in machines : ~mach[id].in_gc_queue

\* C17: the event loop never holds more than one deferred GC task, and it
\* holds one exactly when the manager keeps a handle.  A step taken
\* without a handle either registers the task (handle kept, enabled) or,
\* when registration fails, keeps no handle and registers nothing; a step
\* taken with a handle keeps that handle and registers nothing.  Whenever
\* no handle is kept, also after a failed registration, an arm call that
\* succeeds registers the task.
C17_OneDeferredTask ==
    /\ [](event_sources <= 1)
    /\ []((event_sources = 0) <=> (deferred_gc_event_source = "null"))
    /\ [][IF deferred_gc_event_source = "null"
          THEN \/ /\ deferred_gc_event_source' = "oneshot"
                  /\ event_sources' = event_sources + 1
               \/ /\ deferred_gc_event_source' = "null"
                  /\ event_sources' = event_sources
          ELSE /\ deferred_gc_event_source' # "null"
               /\ event_sources' = event_sources]_vars
    /\ [](deferred_gc_event_source = "null" /\ CanArm =>
            ENABLED (\E id \in Ids :
                        /\ machine_add_to_gc_queue(id, TRUE)
                        /\ event_sources' = event_sources + 1))

\* Two arm calls in a row failed to register the task: two machines are
\* queued, no handle is kept, nothing is registered.
C17_Witness ==
    /\ ret.op = "enqueue"
    /\ ~ret.queued
    /\ Len(machine_gc_queue) >= 2
    /\ deferred_gc_event_source = "null"
    /\ event_sources = 0

\* A machine is put on the GC queue in this step (the arm call is made):
\* its flag rises, or its stop re-enqueued it during this loop turn.
ArmStep ==
    \/ \E id \in DOMAIN mach \cap DOMAIN mach' :
           ~mach[id].in_gc_queue /\ mach'[id].in_gc_queue
    \/ ret'.op = "gc" /\ ret'.requeued

\* C18: once the deferred task is enabled it is eventually dispatched
\* (under SpecFair).  It is dispatched only when enabled, dispatching
\* starts one manager_gc pass and switches the task off, so arm calls made
\* before the dispatch share that one pass; arm calls keep an enabled task
\* enabled, and a task that is off is enabled again only by an arm call.
C18_ArmedTaskRunsOnce ==
    /\ (deferred_gc_event_source = "oneshot") ~> (ret.op = "deferred_gc")
    /\ [](ret.op = "deferred_gc" =>
            deferred_gc_event_source = "off" /\ gc_pc = "loop")
    /\ [][ret'.op = "deferred_gc" =>
            deferred_gc_event_source = "oneshot" /\ gc_pc = "idle"]_vars
    /\ [][deferred_gc_event_source = "oneshot" /\ ret'.op # "deferred_gc" =>
            deferred_gc_event_source' = "oneshot"]_vars
    /\ [][deferred_gc_event_source = "off" /\ ~ArmStep =>
            deferred_gc_event_source' = "off"]_vars

\* The task was dispatched with two machines queued by two arm calls.
C18_Witness ==
    /\ ret.op = "deferred_gc"
    /\ Len(machine_gc_queue) >= 2
    /\ deferred_gc_event_source = "off"

\* C20: a pass entered by on_deferred_gc always runs with drop_not_started
\* set, whatever callers passed to their own passes; when it examines a
\* queued machine that is unreferenced and still Opening it stops it and,
\* unless that stop left it referenced, destroys it.
C20_DeferredPassDropsNotStarted ==
    /\ gc_deferred => gc_pc = "loop" /\ gc_drop
    /\ (/\ gc_deferred /\ ret.op = "gc"
        /\ ret.state = "opening" /\ ~ret.referenced) =>
           /\ ret.drop
           /\ ret.stopped
           /\ ~ret.rereferenced =>
                  /\ ret.freed
                  /\ ret.machine \notin DOMAIN mach
                  /\ ret.machine \notin machines

\* A deferred pass stopped and destroyed an unreferenced machine that was
\* still Opening.
C20_Witness ==
    /\ gc_deferred
    /\ ret.op = "gc" /\ ret.state = "opening" /\ ~ret.referenced
    /\ ret.stopped /\ ret.freed
    /\ ret.machine \notin machines

====
